---- MODULE Spec2Model ----
(***************************************************************************)
(* Model of gemini-parse: the byte cursor (src/src/iter.rs), the line      *)
(* scanners, the status parser and the two frame parsers                   *)
(* (src/src/lib.rs).                                                       *)
(*                                                                         *)
(* Bytes are integers 0..255, a buffer is a sequence of bytes, a cursor is *)
(* a buffer with an offset pos (0-based, as in the source; the sequence is *)
(* 1-based, so the byte at offset pos is slice[pos + 1]).                  *)
(***************************************************************************)
EXTENDS Integers, Sequences, FiniteSets, TLC

\* ---------------------------------------------------------------- bytes
CR == 13
LF == 10
SP == 32
ZERO == 48
NINE == 57
META_MAX_LENGTH == 1024

\* Option<u8>::None, as returned by peek / next at the end of the buffer.
None == -1

\* Option<T> for the fields of Request / Response: <<>> is None, <<v>> is Some(v).
NoneOpt == << >>
Some(v) == << v >>

\* ---------------------------------------------------------------- outcomes
\* Result<Status<T>, Error>: one uniform record for the three shapes.
Complete(v) == [kind |-> "Complete", val |-> v, err |-> ""]
Partial == [kind |-> "Partial", val |-> 0, err |-> ""]
Err(e) == [kind |-> "Err", val |-> 0, err |-> e]

\* No Result at all: the call panicked or the process was killed inside it.
Crash == [kind |-> "Crash", val |-> 0, err |-> ""]

\* ---------------------------------------------------------------- iter.rs
\* Bytes::peek: the byte at pos, None at or past the end.
peek(slice, pos) == IF pos < Len(slice) THEN slice[pos + 1] ELSE None

\* Bytes::bump: pos += 1, unconditionally.
bump(pos) == pos + 1

\* Mutant of next: the cursor advances even when no byte is left.
next_Unchecked(slice, pos) == [item |-> peek(slice, pos), pos |-> pos + 1]

\* Iterator::next: the byte at pos and pos + 1, or None and pos unchanged.
next(slice, pos) ==
  IF pos < Len(slice)
    THEN [item |-> slice[pos + 1], pos |-> pos + 1]
    ELSE [item |-> None, pos |-> pos]

\* Index<Range>: &bytes[start..end], the bytes at offsets start .. end-1.
Slice(slice, start, end) == SubSeq(slice, start + 1, end)

\* ---------------------------------------------------------------- lib.rs: scanners
\* The state of a scanning loop: the cursor offset, whether the function has
\* returned, and what it returned.
Running(pos) == [pos |-> pos, done |-> FALSE, ret |-> Partial]
Return(pos, ret) == [pos |-> pos, done |-> TRUE, ret |-> ret]

\* Mutant of skip_empty_lines_step: a CR is taken for a blank line whatever
\* byte follows it.
skip_empty_lines_step_LenientCr(slice, st) ==
  LET b == peek(slice, st.pos) IN
  IF st.done THEN st
  ELSE IF b = CR THEN
    LET n == next(slice, bump(st.pos)) IN
    IF n.item = None THEN Return(n.pos, Partial)
    ELSE Running(n.pos)
  ELSE IF b = LF THEN Running(bump(st.pos))
  ELSE IF b # None THEN Return(st.pos, Complete(0))
  ELSE Return(st.pos, Partial)

\* Mutant of skip_empty_lines_step: the first byte of the line after the blank
\* lines is consumed.
skip_empty_lines_step_EatsFirstByte(slice, st) ==
  LET b == peek(slice, st.pos) IN
  IF st.done THEN st
  ELSE IF b = CR THEN
    LET n == next(slice, bump(st.pos)) IN
    IF n.item = None THEN Return(n.pos, Partial)
    ELSE IF n.item = LF THEN Running(n.pos)
    ELSE Return(n.pos, Err("NewLine"))
  ELSE IF b = LF THEN Running(bump(st.pos))
  ELSE IF b # None THEN Return(bump(st.pos), Complete(0))
  ELSE Return(st.pos, Partial)

\* One iteration of the loop of skip_empty_lines.
skip_empty_lines_step(slice, st) ==
  LET b == peek(slice, st.pos) IN
  IF st.done THEN st
  ELSE IF b = CR THEN
    LET n == next(slice, bump(st.pos)) IN
    IF n.item = None THEN Return(n.pos, Partial)
    ELSE IF n.item = LF THEN Running(n.pos)
    ELSE Return(n.pos, Err("NewLine"))
  ELSE IF b = LF THEN Running(bump(st.pos))
  ELSE IF b # None THEN Return(st.pos, Complete(0))
  ELSE Return(st.pos, Partial)

\* n iterations of the loop (a returned state is left as it is).
RECURSIVE skip_empty_lines_loop(_, _, _)
skip_empty_lines_loop(slice, st, n) ==
  IF st.done \/ n = 0 THEN st
  ELSE IF n = 1 THEN skip_empty_lines_step(slice, st)
  ELSE LET half == n \div 2
           mid == skip_empty_lines_loop(slice, st, half)
       IN skip_empty_lines_loop(slice, mid, n - half)

\* skip_empty_lines(bytes): the loop run until it returns. Every iteration
\* that does not return advances pos, so Len(slice) + 1 iterations are enough.
skip_empty_lines(slice, pos) ==
  LET st == skip_empty_lines_loop(slice, Running(pos), Len(slice) + 1) IN
  [ret |-> st.ret, pos |-> st.pos, done |-> st.done]

\* Mutant of next_line_inner_step: the end of the buffer ends the line.
next_line_inner_step_EofEndsLine(slice, start, limit, st) ==
  LET b == peek(slice, st.pos) IN
  IF st.done THEN st
  ELSE IF b = CR THEN
    LET n == next(slice, bump(st.pos)) IN
    IF n.item = None THEN Return(n.pos, Partial)
    ELSE IF n.item = LF THEN Return(n.pos, Complete(n.pos - 2))
    ELSE Return(n.pos, Err("NewLine"))
  ELSE IF b = LF THEN Return(bump(st.pos), Complete(bump(st.pos) - 1))
  ELSE IF b # None THEN
    IF limit # None /\ st.pos - start + 1 > limit
      THEN Return(st.pos, Err("NewLine"))
      ELSE Running(bump(st.pos))
  ELSE Return(st.pos, Complete(st.pos))

\* Mutant of next_line_inner_step: a CR ends the line by itself, the LF after
\* it is neither required nor consumed.
next_line_inner_step_CrEndsLine(slice, start, limit, st) ==
  LET b == peek(slice, st.pos) IN
  IF st.done THEN st
  ELSE IF b = CR \/ b = LF THEN Return(bump(st.pos), Complete(bump(st.pos) - 1))
  ELSE IF b # None THEN
    IF limit # None /\ st.pos - start + 1 > limit
      THEN Return(st.pos, Err("NewLine"))
      ELSE Running(bump(st.pos))
  ELSE Return(st.pos, Partial)

\* Mutant of next_line_inner_step: the ceiling is compared without the byte
\* about to be consumed, so one byte more than the ceiling is let through.
next_line_inner_step_LimitOffByOne(slice, start, limit, st) ==
  LET b == peek(slice, st.pos) IN
  IF st.done THEN st
  ELSE IF b = CR THEN
    LET n == next(slice, bump(st.pos)) IN
    IF n.item = None THEN Return(n.pos, Partial)
    ELSE IF n.item = LF THEN Return(n.pos, Complete(n.pos - 2))
    ELSE Return(n.pos, Err("NewLine"))
  ELSE IF b = LF THEN Return(bump(st.pos), Complete(bump(st.pos) - 1))
  ELSE IF b # None THEN
    IF limit # None /\ st.pos - start > limit
      THEN Return(st.pos, Err("NewLine"))
      ELSE Running(bump(st.pos))
  ELSE Return(st.pos, Partial)

\* Mutant of next_line_inner_step: a CR that is the last byte of the buffer
\* is refused instead of waiting for more bytes.
next_line_inner_step_CrAtEndRefused(slice, start, limit, st) ==
  LET b == peek(slice, st.pos) IN
  IF st.done THEN st
  ELSE IF b = CR THEN
    LET n == next(slice, bump(st.pos)) IN
    IF n.item = LF THEN Return(n.pos, Complete(n.pos - 2))
    ELSE Return(n.pos, Err("NewLine"))
  ELSE IF b = LF THEN Return(bump(st.pos), Complete(bump(st.pos) - 1))
  ELSE IF b # None THEN
    IF limit # None /\ st.pos - start + 1 > limit
      THEN Return(st.pos, Err("NewLine"))
      ELSE Running(bump(st.pos))
  ELSE Return(st.pos, Partial)

\* Mutant of next_line_inner_step: a lone LF is counted into the line's
\* content.
next_line_inner_step_LfKept(slice, start, limit, st) ==
  LET b == peek(slice, st.pos) IN
  IF st.done THEN st
  ELSE IF b = CR THEN
    LET n == next(slice, bump(st.pos)) IN
    IF n.item = None THEN Return(n.pos, Partial)
    ELSE IF n.item = LF THEN Return(n.pos, Complete(n.pos - 2))
    ELSE Return(n.pos, Err("NewLine"))
  ELSE IF b = LF THEN Return(bump(st.pos), Complete(bump(st.pos)))
  ELSE IF b # None THEN
    IF limit # None /\ st.pos - start + 1 > limit
      THEN Return(st.pos, Err("NewLine"))
      ELSE Running(bump(st.pos))
  ELSE Return(st.pos, Partial)

\* One iteration of the loop of next_line_inner; limit is None for no limit.
next_line_inner_step(slice, start, limit, st) ==
  LET b == peek(slice, st.pos) IN
  IF st.done THEN st
  ELSE IF b = CR THEN
    LET n == next(slice, bump(st.pos)) IN
    IF n.item = None THEN Return(n.pos, Partial)
    ELSE IF n.item = LF THEN Return(n.pos, Complete(n.pos - 2))
    ELSE Return(n.pos, Err("NewLine"))
  ELSE IF b = LF THEN Return(bump(st.pos), Complete(bump(st.pos) - 1))
  ELSE IF b # None THEN
    IF limit # None /\ st.pos - start + 1 > limit
      THEN Return(st.pos, Err("NewLine"))
      ELSE Running(bump(st.pos))
  ELSE Return(st.pos, Partial)

RECURSIVE next_line_inner_loop(_, _, _, _, _)
next_line_inner_loop(slice, start, limit, st, n) ==
  IF st.done \/ n = 0 THEN st
  ELSE IF n = 1 THEN next_line_inner_step(slice, start, limit, st)
  ELSE LET half == n \div 2
           mid == next_line_inner_loop(slice, start, limit, st, half)
       IN next_line_inner_loop(slice, start, limit, mid, n - half)

\* next_line_inner(bytes, limit): Complete carries the offset where the
\* line's content ends.
next_line_inner(slice, pos, limit) ==
  LET st == next_line_inner_loop(slice, pos, limit, Running(pos), Len(slice) + 1) IN
  [ret |-> st.ret, pos |-> st.pos, done |-> st.done]

\* Mutant of next_line: the request line is scanned under the ceiling of the
\* response metadata.
next_line_Limited(slice, pos) == next_line_inner(slice, pos, META_MAX_LENGTH)

next_line(slice, pos) == next_line_inner(slice, pos, None)

\* Mutant of next_line_limit: the limit is not handed on.
next_line_limit_Unlimited(slice, pos, limit) == next_line_inner(slice, pos, None)

next_line_limit(slice, pos, limit) == next_line_inner(slice, pos, limit)

\* ---------------------------------------------------------------- lib.rs: status
IsDigit(b) == ZERO <= b /\ b <= NINE

\* Arithmetic in u8 and in u16.
u8(x) == x % 256
u16(x) == x % 65536

\* Mutant of parse_status: the digits are combined in the wrong order.
parse_status_OnesFirst(slice, pos) ==
  LET t == next(slice, pos) IN
  IF t.item = None THEN [ret |-> Partial, pos |-> t.pos]
  ELSE IF ~IsDigit(t.item) THEN [ret |-> Err("Status"), pos |-> t.pos]
  ELSE
    LET o == next(slice, t.pos) IN
    IF o.item = None THEN [ret |-> Partial, pos |-> o.pos]
    ELSE IF ~IsDigit(o.item) THEN [ret |-> Err("Status"), pos |-> o.pos]
    ELSE [ret |-> Complete(u16(u16(u8(o.item - ZERO) * 10) + u8(t.item - ZERO))),
          pos |-> o.pos]

\* Mutant of parse_status: a missing second byte is taken for a bad digit.
parse_status_NoPartial(slice, pos) ==
  LET t == next(slice, pos) IN
  IF t.item = None THEN [ret |-> Partial, pos |-> t.pos]
  ELSE IF ~IsDigit(t.item) THEN [ret |-> Err("Status"), pos |-> t.pos]
  ELSE
    LET o == next(slice, t.pos) IN
    IF ~IsDigit(o.item) THEN [ret |-> Err("Status"), pos |-> o.pos]
    ELSE [ret |-> Complete(u16(u16(u8(t.item - ZERO) * 10) + u8(o.item - ZERO))),
          pos |-> o.pos]

\* parse_status: two expect!(bytes.next() == b'0'..=b'9'), then
\* ((tens - b'0') as u16 * 10) + (ones - b'0') as u16.
parse_status(slice, pos) ==
  LET t == next(slice, pos) IN
  IF t.item = None THEN [ret |-> Partial, pos |-> t.pos]
  ELSE IF ~IsDigit(t.item) THEN [ret |-> Err("Status"), pos |-> t.pos]
  ELSE
    LET o == next(slice, t.pos) IN
    IF o.item = None THEN [ret |-> Partial, pos |-> o.pos]
    ELSE IF ~IsDigit(o.item) THEN [ret |-> Err("Status"), pos |-> o.pos]
    ELSE [ret |-> Complete(u16(u16(u8(t.item - ZERO) * 10) + u8(o.item - ZERO))),
          pos |-> o.pos]

\* ---------------------------------------------------------------- UTF-8
\* core::str::utf8_char_width: the length of the sequence a lead byte opens,
\* 0 for a byte that opens none.
utf8_char_width(b) ==
  IF b < 128 THEN 1
  ELSE IF 194 <= b /\ b <= 223 THEN 2
  ELSE IF 224 <= b /\ b <= 239 THEN 3
  ELSE IF 240 <= b /\ b <= 244 THEN 4
  ELSE 0

IsCont(b) == 128 <= b /\ b <= 191

\* One iteration of the validation loop of str::from_utf8 (ok is meaningful
\* once done): a sequence is checked against the well-formed byte ranges.
from_utf8_step(v, st) ==
  LET first == peek(v, st.index)
      b1 == peek(v, st.index + 1)
      b2 == peek(v, st.index + 2)
      b3 == peek(v, st.index + 3)
      w == utf8_char_width(first)
      bad == [index |-> st.index, done |-> TRUE, ok |-> FALSE]
      on(k) == [index |-> st.index + k, done |-> FALSE, ok |-> TRUE]
  IN
  IF st.done THEN st
  ELSE IF first = None THEN [index |-> st.index, done |-> TRUE, ok |-> TRUE]
  ELSE IF w = 1 THEN on(1)
  ELSE IF w = 2 THEN (IF IsCont(b1) THEN on(2) ELSE bad)
  ELSE IF w = 3 THEN
    (IF /\ \/ first = 224 /\ 160 <= b1 /\ b1 <= 191
           \/ 225 <= first /\ first <= 236 /\ IsCont(b1)
           \/ first = 237 /\ 128 <= b1 /\ b1 <= 159
           \/ 238 <= first /\ first <= 239 /\ IsCont(b1)
        /\ IsCont(b2)
       THEN on(3) ELSE bad)
  ELSE IF w = 4 THEN
    (IF /\ \/ first = 240 /\ 144 <= b1 /\ b1 <= 191
           \/ 241 <= first /\ first <= 243 /\ IsCont(b1)
           \/ first = 244 /\ 128 <= b1 /\ b1 <= 143
        /\ IsCont(b2)
        /\ IsCont(b3)
       THEN on(4) ELSE bad)
  ELSE bad

RECURSIVE from_utf8_loop(_, _, _)
from_utf8_loop(v, st, n) ==
  IF st.done \/ n = 0 THEN st
  ELSE IF n = 1 THEN from_utf8_step(v, st)
  ELSE LET half == n \div 2
           mid == from_utf8_loop(v, st, half)
       IN from_utf8_loop(v, mid, n - half)

\* str::from_utf8(v): TRUE for Ok, FALSE for Err(Utf8Error).
from_utf8(v) ==
  from_utf8_loop(v, [index |-> 0, done |-> FALSE, ok |-> TRUE], Len(v) + 1).ok

\* ---------------------------------------------------------------- URL
\* Url::parse of the url crate (the WHATWG URL parser without a base URL),
\* which the parser consumes as a capability and whose code is no part of
\* this repository. A text is a sequence of UTF-8 bytes. A result is a URL or
\* a ParseError; the URL is its lower-cased scheme and the rest of its
\* serialisation, the bytes after "scheme:".
IsAlpha(b) == (65 <= b /\ b <= 90) \/ (97 <= b /\ b <= 122)
IsSchemeChar(b) == IsAlpha(b) \/ IsDigit(b) \/ b = 43 \/ b = 45 \/ b = 46
ToLower(b) == IF 65 <= b /\ b <= 90 THEN b + 32 ELSE b
Lower(s) == [i \in 1..Len(s) |-> ToLower(s[i])]
NotTabOrNewline(b) == b \notin {9, LF, CR}
SetMin(S) == CHOOSE x \in S : \A y \in S : x <= y
SetMax(S) == CHOOSE x \in S : \A y \in S : y <= x

\* The first offset at or after from where s holds a byte of S; Len(s) + 1 if
\* there is none.
FirstOf(s, from, S) ==
  SetMin({i \in from..(Len(s) + 1) : i = Len(s) + 1 \/ s[i] \in S})
StartsWith(s, p) == Len(s) >= Len(p) /\ SubSeq(s, 1, Len(p)) = p
From(s, i) == SubSeq(s, i, Len(s))

\* A result of Url::parse: Ok(url), Err(ParseError), or no return at all (the
\* process panics or is killed).
UrlOk(scheme, rest) ==
  [ok |-> TRUE, dies |-> FALSE, url |-> [scheme |-> scheme, rest |-> rest]]
UrlErr == [ok |-> FALSE, dies |-> FALSE, url |-> [scheme |-> << >>, rest |-> << >>]]
UrlDies == [ok |-> FALSE, dies |-> TRUE, url |-> [scheme |-> << >>, rest |-> << >>]]

\* The syntax left open here: the "file" scheme, hosts of the special
\* schemes that need IDNA mapping (non-ASCII bytes, "xn--" labels), and what
\* follows the scheme in a text that is not UTF-8. For a text that uses it
\* the result is an error or a URL whose serialisation is not modelled.
NotModelled == << None >>
Open(scheme) == {UrlErr, UrlOk(scheme, NotModelled)}

\* Input::new: leading and trailing C0 controls and spaces are trimmed; tab,
\* LF and CR are skipped wherever they stand.
UrlTrim(text) ==
  LET keep == {i \in 1..Len(text) : text[i] > SP} IN
  IF keep = {} THEN << >>
  ELSE SelectSeq(SubSeq(text, SetMin(keep), SetMax(keep)), NotTabOrNewline)

\* The percent-encode sets of the crate.
CONTROLS == {b \in 0..255 : b < 32 \/ b >= 127}
FRAGMENT == CONTROLS \cup {32, 34, 60, 62, 96}
PATH == FRAGMENT \cup {35, 63, 123, 125}
USERINFO == PATH \cup {47, 58, 59, 61, 64, 91, 92, 93, 94, 124}
QUERY == CONTROLS \cup {32, 34, 35, 60, 62}
SPECIAL_QUERY == QUERY \cup {39}

\* utf8_percent_encode: a byte of the set becomes '%' and two upper-case hex
\* digits.
HexDigit(n) == IF n < 10 THEN 48 + n ELSE 55 + n
RECURSIVE percent_encode_range(_, _, _, _)
percent_encode_range(s, set, lo, hi) ==
  IF lo > hi THEN << >>
  ELSE IF lo = hi
    THEN IF s[lo] \in set
           THEN << 37, HexDigit(s[lo] \div 16), HexDigit(s[lo] % 16) >>
           ELSE << s[lo] >>
  ELSE LET mid == (lo + hi) \div 2 IN
       percent_encode_range(s, set, lo, mid) \o percent_encode_range(s, set, mid + 1, hi)
utf8_percent_encode(s, set) == percent_encode_range(s, set, 1, Len(s))

\* The schemes with special parsing rules and their default ports.
SchemeHttp == << 104, 116, 116, 112 >>
SchemeHttps == << 104, 116, 116, 112, 115 >>
SchemeWs == << 119, 115 >>
SchemeWss == << 119, 115, 115 >>
SchemeFtp == << 102, 116, 112 >>
SchemeFile == << 102, 105, 108, 101 >>
IsSpecial(scheme) ==
  scheme \in {SchemeHttp, SchemeHttps, SchemeWs, SchemeWss, SchemeFtp, SchemeFile}
default_port(scheme) ==
  IF scheme \in {SchemeHttp, SchemeWs} THEN 80
  ELSE IF scheme \in {SchemeHttps, SchemeWss} THEN 443
  ELSE IF scheme = SchemeFtp THEN 21
  ELSE None

\* The segments of a path: the pieces between the separators.
RECURSIVE Split(_, _)
Split(s, seps) ==
  LET i == FirstOf(s, 1, seps) IN
  IF i > Len(s) THEN << s >>
  ELSE << SubSeq(s, 1, i - 1) >> \o Split(From(s, i + 1), seps)

IsSingleDot(seg) == Lower(seg) \in {<< 46 >>, << 37, 50, 101 >>}
IsDoubleDot(seg) ==
  Lower(seg) \in {<< 46, 46 >>, << 46, 37, 50, 101 >>, << 37, 50, 101, 46 >>,
                  << 37, 50, 101, 37, 50, 101 >>}

\* starts_with_windows_drive_letter: an ASCII letter, then ':' or '|', then
\* the end of the text or one of '/', '\\', '?', '#'.
starts_with_windows_drive_letter(s) ==
  /\ Len(s) >= 2
  /\ IsAlpha(s[1])
  /\ s[2] \in {58, 124}
  /\ (Len(s) = 2 \/ s[3] \in {47, 92, 63, 35})

\* is_windows_drive_letter: a segment of exactly that letter and ':' or '|'.
is_windows_drive_letter(seg) == Len(seg) = 2 /\ starts_with_windows_drive_letter(seg)

\* Parser::last_slash_can_be_removed, for the path written so far, which is
\* followed by the slash before the ".." segment: not the root slash (the path
\* has no segment), and not the slash after a segment that starts like a
\* Windows drive letter, in any scheme.
last_slash_can_be_removed(path) ==
  /\ path # << >>
  /\ ~starts_with_windows_drive_letter(path[Len(path)] \o << 47 >>)

\* parse_path: the segments are percent-encoded; a "." segment is dropped and
\* a ".." segment removes the segment before it, unless that one starts like
\* a Windows drive letter ("/C:/.." stays "/C:/"); after a last segment that
\* is "." or ".." the path ends with an empty segment.
RECURSIVE parse_path_segments(_, _, _)
parse_path_segments(segs, i, path) ==
  IF i > Len(segs) THEN path
  ELSE
    LET seg == utf8_percent_encode(segs[i], PATH)
        last == i = Len(segs)
        shorter == IF last_slash_can_be_removed(path)
                     THEN SubSeq(path, 1, Len(path) - 1)
                     ELSE path
    IN
    IF IsDoubleDot(seg)
      THEN parse_path_segments(segs, i + 1, IF last THEN Append(shorter, << >>) ELSE shorter)
    ELSE IF IsSingleDot(seg)
      THEN parse_path_segments(segs, i + 1, IF last THEN Append(path, << >>) ELSE path)
    ELSE parse_path_segments(segs, i + 1, Append(path, seg))

RECURSIVE JoinPath(_, _)
JoinPath(path, i) ==
  IF i > Len(path) THEN << >> ELSE << 47 >> \o path[i] \o JoinPath(path, i + 1)

\* The serialised path of the input p, which starts after the path's first
\* slash; a backslash separates segments in the special schemes only.
parse_path(special, p) ==
  JoinPath(parse_path_segments(Split(p, IF special THEN {47, 92} ELSE {47}), 1, << >>), 1)

\* parse_query_and_fragment: q is empty or starts with '?' or '#'.
parse_query_and_fragment(special, q) ==
  IF q = << >> THEN << >>
  ELSE IF q[1] = 35 THEN << 35 >> \o utf8_percent_encode(From(q, 2), FRAGMENT)
  ELSE
    LET h == FirstOf(q, 2, {35}) IN
    << 63 >>
      \o utf8_percent_encode(SubSeq(q, 2, h - 1), IF special THEN SPECIAL_QUERY ELSE QUERY)
      \o (IF h <= Len(q) THEN << 35 >> \o utf8_percent_encode(From(q, h + 1), FRAGMENT)
          ELSE << >>)

\* A parsed host: an error, a serialised host, or one of the open cases, in
\* which the call may also panic (dies).
HostOk(ser) == [ok |-> TRUE, open |-> FALSE, dies |-> FALSE, ser |-> ser]
HostErr == [ok |-> FALSE, open |-> FALSE, dies |-> FALSE, ser |-> << >>]
HostOpen(dies) == [ok |-> TRUE, open |-> TRUE, dies |-> dies, ser |-> << >>]

\* NUL, tab, LF, CR, space, '#', '/', ':', '<', '>', '?', '@', '[', '\', ']',
\* '^', '|'; in a domain also the other C0 controls, '%' and DEL.
ForbiddenHost == {0, 9, 10, 13, 32, 35, 47, 58, 60, 62, 63, 64, 91, 92, 93, 94, 124}
ForbiddenDomain == ForbiddenHost \cup (0..31) \cup {37, 127}

\* A number in decimal digits.
RECURSIVE Decimal(_)
Decimal(n) == IF n < 10 THEN << ZERO + n >> ELSE Decimal(n \div 10) \o << ZERO + (n % 10) >>

\* percent_decode: '%' and two hex digits become one byte.
IsHex(b) == IsDigit(b) \/ (65 <= b /\ b <= 70) \/ (97 <= b /\ b <= 102)
HexValue(b) == IF IsDigit(b) THEN b - ZERO ELSE ToLower(b) - 87
RECURSIVE percent_decode_from(_, _)
percent_decode_from(s, i) ==
  IF i > Len(s) THEN << >>
  ELSE IF s[i] = 37 /\ i + 2 <= Len(s) /\ IsHex(s[i + 1]) /\ IsHex(s[i + 2])
    THEN << 16 * HexValue(s[i + 1]) + HexValue(s[i + 2]) >> \o percent_decode_from(s, i + 3)
  ELSE << s[i] >> \o percent_decode_from(s, i + 1)
percent_decode(s) == percent_decode_from(s, 1)

\* A u32 as its high and low 16 bits; TooBig past u32::MAX; NotNumber for
\* a part that is no number.
TooBig == [hi |-> 65536, lo |-> 0]
NotNumber == [hi |-> -1, lo |-> 0]
RECURSIVE RadixValue(_, _, _, _)
RadixValue(s, i, r, acc) ==
  IF i > Len(s) THEN acc
  ELSE LET lo == acc.lo * r + HexValue(s[i])
           hi == acc.hi * r + lo \div 65536
       IN IF hi >= 65536 THEN TooBig
          ELSE RadixValue(s, i + 1, r, [hi |-> hi, lo |-> lo % 65536])

\* A number in lower-case hex digits.
RECURSIVE LowerHex(_)
LowerHex(n) ==
  LET d == n % 16
      c == IF d < 10 THEN ZERO + d ELSE 87 + d
  IN IF n < 16 THEN << c >> ELSE LowerHex(n \div 16) \o << c >>

\* parse_ipv6addr, the pieces in hex: one pass of its loop. The state is the
\* offset i, the eight pieces, the index of the piece to write, the index
\* where "::" stood (None for none), whether an IPv4 tail starts at i, and
\* whether the address is refused.
Ipv6Start(in) ==
  LET st == [i |-> 0, addr |-> [k \in 1..8 |-> 0], piece |-> 0, compress |-> None,
             v4 |-> FALSE, err |-> FALSE]
  IN IF in # << >> /\ in[1] = 58
       THEN IF Len(in) >= 2 /\ in[2] = 58
              THEN [st EXCEPT !.i = 2, !.piece = 1, !.compress = 1]
              ELSE [st EXCEPT !.err = TRUE]
       ELSE st

RECURSIVE ipv6_pieces(_, _)
ipv6_pieces(in, st) ==
  IF st.err \/ st.v4 \/ st.i >= Len(in) THEN st
  ELSE IF st.piece = 8 THEN [st EXCEPT !.err = TRUE]
  ELSE IF in[st.i + 1] = 58 THEN
    IF st.compress # None THEN [st EXCEPT !.err = TRUE]
    ELSE ipv6_pieces(in, [st EXCEPT !.i = st.i + 1, !.piece = st.piece + 1,
                                    !.compress = st.piece + 1])
  ELSE
    LET start == st.i
        end == IF Len(in) < start + 4 THEN Len(in) ELSE start + 4
        stop == SetMin({j \in start..end : j = end \/ ~IsHex(in[j + 1])})
        value == RadixValue(SubSeq(in, start + 1, stop), 1, 16, [hi |-> 0, lo |-> 0]).lo
        written == [st EXCEPT !.addr[st.piece + 1] = value, !.piece = st.piece + 1]
    IN
    IF stop >= Len(in) THEN [written EXCEPT !.i = stop]
    ELSE IF in[stop + 1] = 46 THEN
      IF stop = start \/ st.piece > 6 THEN [st EXCEPT !.err = TRUE]
      ELSE [st EXCEPT !.i = start, !.v4 = TRUE]
    ELSE IF in[stop + 1] = 58 THEN
      IF stop + 1 = Len(in) THEN [st EXCEPT !.err = TRUE]
      ELSE ipv6_pieces(in, [written EXCEPT !.i = stop + 1])
    ELSE [st EXCEPT !.err = TRUE]

\* The IPv4 tail of an IPv6 address: four decimal numbers of at most 255
\* without leading zeros, separated by '.', two to a piece; seen counts the
\* numbers read.
RECURSIVE ipv6_v4_tail(_, _, _)
ipv6_v4_tail(in, st, seen) ==
  IF st.err THEN st
  ELSE IF st.i >= Len(in) THEN (IF seen # 4 THEN [st EXCEPT !.err = TRUE] ELSE st)
  ELSE IF seen > 0 /\ ~(seen < 4 /\ in[st.i + 1] = 46) THEN [st EXCEPT !.err = TRUE]
  ELSE
    LET from == IF seen > 0 THEN st.i + 1 ELSE st.i
        stop == SetMin({j \in from..Len(in) : j = Len(in) \/ ~IsDigit(in[j + 1])})
        digits == SubSeq(in, from + 1, stop)
        long == Len(digits) > 3 \/ (Len(digits) >= 2 /\ digits[1] = ZERO)
        v == RadixValue(digits, 1, 10, [hi |-> 0, lo |-> 0]).lo
    IN
    IF digits = << >> \/ long \/ v > 255 THEN [st EXCEPT !.err = TRUE]
    ELSE ipv6_v4_tail(in,
           [st EXCEPT !.i = stop,
                      !.addr[st.piece + 1] = st.addr[st.piece + 1] * 256 + v,
                      !.piece = IF seen + 1 \in {2, 4} THEN st.piece + 1 ELSE st.piece],
           seen + 1)

\* The eight pieces once "::" is filled with zero pieces.
Ipv6Expand(st) ==
  LET moved == st.piece - st.compress IN
  [k \in 1..8 |->
     IF k <= st.compress THEN st.addr[k]
     ELSE IF k > 8 - moved THEN st.addr[k - (8 - st.piece)]
     ELSE 0]

\* write_ipv6: the pieces in hex separated by ':', the first longest run of
\* two or more zero pieces written as "::".
Ipv6ZeroRun(addr) ==
  LET runs == {r \in (1..8) \X (1..8) :
                 /\ r[1] <= r[2]
                 /\ \A k \in r[1]..r[2] : addr[k] = 0
                 /\ (r[1] = 1 \/ addr[r[1] - 1] # 0)
                 /\ (r[2] = 8 \/ addr[r[2] + 1] # 0)}
      longest == {r \in runs : r[2] - r[1] >= 1
                                 /\ \A q \in runs : q[2] - q[1] <= r[2] - r[1]}
  IN IF longest = {} THEN << 0, 0 >>
     ELSE CHOOSE r \in longest : \A q \in longest : r[1] <= q[1]

RECURSIVE write_ipv6_from(_, _, _)
write_ipv6_from(addr, run, k) ==
  IF k > 8 THEN << >>
  ELSE IF k = run[1]
    THEN (IF k = 1 THEN << 58, 58 >> ELSE << 58 >>) \o write_ipv6_from(addr, run, run[2] + 1)
  ELSE LowerHex(addr[k]) \o (IF k < 8 THEN << 58 >> ELSE << >>)
         \o write_ipv6_from(addr, run, k + 1)
write_ipv6(addr) == << 91 >> \o write_ipv6_from(addr, Ipv6ZeroRun(addr), 1) \o << 93 >>

\* parse_ipv6addr: the pieces, then the IPv4 tail if there is one, then the
\* address if all the input was read and eight pieces are there.
ipv6_tail(in, p) == IF p.v4 /\ ~p.err THEN ipv6_v4_tail(in, p, 0) ELSE p
ipv6_address(in, st) ==
  IF st.err \/ st.i < Len(in) THEN HostErr
  ELSE IF st.compress = None /\ st.piece # 8 THEN HostErr
  ELSE HostOk(write_ipv6(IF st.compress # None THEN Ipv6Expand(st) ELSE st.addr))
parse_ipv6addr(in) == ipv6_address(in, ipv6_tail(in, ipv6_pieces(in, Ipv6Start(in))))

\* A host in square brackets is an IPv6 literal: it must close with ']'.
Host_parse_brackets(h) ==
  IF h[Len(h)] # 93 THEN HostErr ELSE parse_ipv6addr(SubSeq(h, 2, Len(h) - 1))

\* Host::parse_opaque, the host of a scheme that is not special: the host
\* percent-encoded where the encoder builds a new string, and the host as it
\* is written where the encoder hands back one borrowed chunk, which it also
\* does for a host of one byte that it encodes.
Host_parse_opaque(h) ==
  IF h # << >> /\ h[1] = 91 THEN Host_parse_brackets(h)
  ELSE IF \E i \in 1..Len(h) : h[i] \in ForbiddenHost THEN HostErr
  ELSE IF Len(h) = 1 THEN HostOk(h)
  ELSE HostOk(utf8_percent_encode(h, CONTROLS))

\* parse_ipv4number: a part in decimal, in octal after a leading "0", or in
\* hex after "0x".
parse_ipv4number(part) ==
  LET hex == StartsWith(Lower(part), << ZERO, 120 >>)
      oct == ~hex /\ Len(part) >= 2 /\ part[1] = ZERO
      r == IF hex THEN 16 ELSE IF oct THEN 8 ELSE 10
      digits == IF hex THEN From(part, 3) ELSE IF oct THEN From(part, 2) ELSE part
      valid == \A i \in 1..Len(digits) :
                 IF r = 16 THEN IsHex(digits[i])
                 ELSE IsDigit(digits[i]) /\ digits[i] - ZERO < r
  IN IF part = << >> \/ ~valid THEN NotNumber
     ELSE RadixValue(digits, 1, r, [hi |-> 0, lo |-> 0])

\* ends_in_a_number: the last label, or the one before it when the last is
\* empty, is all digits or parses as a number.
ends_in_a_number(h) ==
  LET labels == Split(h, {46})
      n == Len(labels)
      last == IF labels[n] # << >> \/ n = 1 THEN labels[n] ELSE labels[n - 1]
  IN /\ last # << >>
     /\ \/ \A i \in 1..Len(last) : IsDigit(last[i])
        \/ parse_ipv4number(last) # NotNumber

\* parse_ipv4addr: at most four parts, all numbers, all but the last at most
\* 255, the last filling the bytes that are left; written as four decimal
\* numbers.
ipv4_parts(all) ==
  IF all[Len(all)] = << >> THEN SubSeq(all, 1, Len(all) - 1) ELSE all
ipv4_numbers(parts) == [i \in 1..Len(parts) |-> parse_ipv4number(parts[i])]
ipv4_address(num) ==
  LET n == Len(num)
      fits == IF n = 1 THEN TRUE
              ELSE IF n = 2 THEN num[n].hi < 256
              ELSE IF n = 3 THEN num[n].hi = 0
              ELSE num[n].hi = 0 /\ num[n].lo < 256
      b3 == IF n >= 2 THEN num[1].lo ELSE num[n].hi \div 256
      b2 == IF n >= 3 THEN num[2].lo ELSE num[n].hi % 256
      b1 == IF n >= 4 THEN num[3].lo ELSE num[n].lo \div 256
      b0 == num[n].lo % 256
  IN
  IF n = 0 \/ n > 4 THEN HostErr
  ELSE IF \E i \in 1..n : num[i] = NotNumber \/ num[i] = TooBig THEN HostErr
  ELSE IF ~fits \/ \E i \in 1..(n - 1) : num[i].hi > 0 \/ num[i].lo > 255 THEN HostErr
  ELSE HostOk(Decimal(b3) \o << 46 >> \o Decimal(b2) \o << 46 >>
                \o Decimal(b1) \o << 46 >> \o Decimal(b0))
parse_ipv4addr(h) == ipv4_address(ipv4_numbers(ipv4_parts(Split(h, {46}))))

HasPunycode(h) ==
  \E i \in 1..(Len(h) - 3) : Lower(SubSeq(h, i, i + 3)) = << 120, 110, 45, 45 >>

\* Host::parse, the host of a special scheme: the host is percent-decoded;
\* an ASCII domain is lower-cased; a domain that ends in a number is an IPv4
\* address. A domain with non-ASCII bytes or an "xn--" label goes through
\* IDNA, which is left open; there an upper-case ASCII letter can fail an
\* assertion of the build with debug assertions, and the call panics.
NeedsIdna(domain) ==
  (\E i \in 1..Len(domain) : domain[i] >= 128) \/ HasPunycode(domain)
HasUpper(domain) == \E i \in 1..Len(domain) : 65 <= domain[i] /\ domain[i] <= 90
Host_parse_domain(domain) ==
  IF NeedsIdna(domain) THEN HostOpen(HasUpper(domain))
  ELSE IF \E i \in 1..Len(domain) : domain[i] \in ForbiddenDomain THEN HostErr
  ELSE IF domain = << >> THEN HostErr
  ELSE IF ends_in_a_number(domain) THEN parse_ipv4addr(Lower(domain))
  ELSE HostOk(Lower(domain))
Host_parse(h) ==
  IF h # << >> /\ h[1] = 91 THEN Host_parse_brackets(h)
  ELSE Host_parse_domain(percent_decode(h))

\* The port number read from the digits p[i..], or None once it passes
\* u16::MAX.
RECURSIVE PortValue(_, _, _, _)
PortValue(p, i, end, acc) ==
  IF i >= end THEN acc
  ELSE LET v == acc * 10 + (p[i] - ZERO) IN
       IF v > 65535 THEN None ELSE PortValue(p, i + 1, end, v)

\* Parser::parse_port on the bytes after the host's ':': digits up to '/',
\* '\', '?', '#' or the end. The port is None when there is no digit or when
\* it is the scheme's default.
parse_port(scheme, p) ==
  LET end == SetMin({i \in 1..(Len(p) + 1) : i = Len(p) + 1 \/ ~IsDigit(p[i])})
      v == PortValue(p, 1, end, 0)
  IN
  IF v = None \/ (end <= Len(p) /\ p[end] \notin {47, 92, 63, 35})
    THEN [ok |-> FALSE, port |-> None, rest |-> << >>]
    ELSE [ok |-> TRUE,
          port |-> IF end = 1 \/ v = default_port(scheme) THEN None ELSE v,
          rest |-> From(p, end)]

\* The offset where the host ends in hp: the first ':' outside square
\* brackets, or the end.
HostEnd(hp) ==
  LET inside(i) ==
        LET bs == {j \in 1..(i - 1) : hp[j] \in {91, 93}} IN
        bs # {} /\ hp[SetMax(bs)] = 91
  IN SetMin({i \in 1..(Len(hp) + 1) : i = Len(hp) + 1 \/ (hp[i] = 58 /\ ~inside(i))})

\* Parser::parse_userinfo on the authority: what precedes the last '@' is
\* "username" or "username:password", percent-encoded; it is written with
\* its '@' unless both are empty.
parse_userinfo(auth) ==
  LET ats == {i \in 1..Len(auth) : auth[i] = 64}
      lastAt == IF ats = {} THEN 0 ELSE SetMax(ats)
      cred == SubSeq(auth, 1, lastAt - 1)
      colon == FirstOf(cred, 1, {58})
      user == utf8_percent_encode(SubSeq(cred, 1, colon - 1), USERINFO)
      pass == utf8_percent_encode(From(cred, colon + 1), USERINFO)
  IN [lastAt |-> lastAt,
      ser |-> user \o (IF pass # << >> THEN << 58 >> \o pass ELSE << >>)
                   \o (IF user # << >> \/ pass # << >> THEN << 64 >> ELSE << >>),
      rest |-> From(auth, lastAt + 1)]

\* Parser::parse_path_start and what follows it: the path, which in a
\* special scheme is never empty, then the query and the fragment.
parse_path_start(special, p) ==
  IF ~special /\ p = << >> THEN << >>
  ELSE parse_path(special,
         IF p # << >> /\ p[1] \in (IF special THEN {47, 92} ELSE {47}) THEN From(p, 2) ELSE p)
after_port(special, r) ==
  LET pe == FirstOf(r, 1, {63, 35}) IN
  parse_path_start(special, SubSeq(r, 1, pe - 1))
    \o parse_query_and_fragment(special, From(r, pe))

\* The URL of an authority: auth is the authority and tail what follows it,
\* ui its userinfo, host_str the host as written, after the bytes after the
\* host (empty, or ':' and the port), host and port as parsed.
with_authority(scheme, auth, tail, ui, host_str, after, host, port) ==
  IF ui.lastAt = 1 /\ Len(auth) = 1 /\ tail # << >> THEN {UrlErr}
  ELSE IF IsSpecial(scheme) /\ host_str = << >> THEN {UrlErr}
  ELSE IF ~host.ok THEN {UrlErr}
  ELSE IF host.open THEN Open(scheme) \cup (IF host.dies THEN {UrlDies} ELSE {})
  ELSE IF host.ser = << >> /\ (after # << >> \/ ui.ser # << >>) THEN {UrlErr}
  ELSE IF ~port.ok THEN {UrlErr}
  ELSE {UrlOk(scheme,
              << 47, 47 >> \o ui.ser \o host.ser
                \o (IF port.port # None THEN << 58 >> \o Decimal(port.port) ELSE << >>)
                \o after_port(IsSpecial(scheme), port.rest \o tail))}

\* Parser::parse_host_and_port: the host as the scheme has it parsed, and
\* the port if a ':' follows the host.
parse_host_and_port(scheme, auth, tail, ui, host_str, after) ==
  with_authority(scheme, auth, tail, ui, host_str, after,
    IF IsSpecial(scheme) THEN Host_parse(host_str) ELSE Host_parse_opaque(host_str),
    IF after = << >> THEN [ok |-> TRUE, port |-> None, rest |-> << >>]
    ELSE parse_port(scheme, From(after, 2)))

after_userinfo(scheme, auth, tail, ui) ==
  LET he == HostEnd(ui.rest) IN
  parse_host_and_port(scheme, auth, tail, ui, SubSeq(ui.rest, 1, he - 1), From(ui.rest, he))

\* Parser::after_double_slash: r is the input after "scheme://" (after all
\* the slashes and backslashes that follow the colon of a special scheme):
\* userinfo, host, port, path, query and fragment. The authority ends at the
\* first '/', '?' or '#', in a special scheme also at a backslash.
after_double_slash(scheme, r) ==
  LET a == FirstOf(r, 1, IF IsSpecial(scheme) THEN {47, 63, 35, 92} ELSE {47, 63, 35}) IN
  after_userinfo(scheme, SubSeq(r, 1, a - 1), From(r, a), parse_userinfo(SubSeq(r, 1, a - 1)))

\* Parser::parse_non_special without "//": a path that starts with '/', or
\* an opaque path, in which only controls and non-ASCII bytes are encoded.
parse_no_authority(scheme, r) ==
  LET pe == FirstOf(r, 1, {63, 35})
      p == SubSeq(r, 1, pe - 1)
      path == IF StartsWith(p, << 47 >>)
                THEN LET s == parse_path(FALSE, From(p, 2)) IN
                     IF StartsWith(s, << 47, 47 >>) THEN << 47, 46 >> \o s ELSE s
                ELSE utf8_percent_encode(p, CONTROLS)
  IN {UrlOk(scheme, path \o parse_query_and_fragment(FALSE, From(r, pe)))}

\* Parser::parse_file, left open, but for the host that follows two slashes
\* or backslashes, which goes through Host::parse and may panic there.
\* Parser::file_host: the text up to '/', '\\', '?' or '#'; a Windows drive
\* letter is no host, and the host is empty.
file_host_str(r) ==
  IF Len(r) >= 2 /\ r[1] \in {47, 92} /\ r[2] \in {47, 92}
    THEN SubSeq(r, 3, FirstOf(r, 3, {47, 92, 63, 35}) - 1)
    ELSE << >>
file_host(r) == IF is_windows_drive_letter(file_host_str(r)) THEN << >> ELSE file_host_str(r)
file_host_dies(h) == h # << >> /\ h[1] # 91 /\ Host_parse_domain(percent_decode(h)).dies
parse_file(scheme, r) ==
  Open(scheme) \cup (IF file_host_dies(file_host(r)) THEN {UrlDies} ELSE {})

\* Parser::parse_with_scheme: r is the input after "scheme:".
parse_with_scheme(scheme, r) ==
  IF scheme = SchemeFile THEN parse_file(scheme, r)
  ELSE IF IsSpecial(scheme) \/ StartsWith(r, << 47, 47 >>)
    THEN after_double_slash(scheme,
           IF IsSpecial(scheme)
             THEN From(r, SetMin({i \in 1..(Len(r) + 1) :
                                    i = Len(r) + 1 \/ r[i] \notin {47, 92}}))
             ELSE From(r, 3))
  ELSE parse_no_authority(scheme, r)

\* Url::parse(text): the set of its possible results, one result except in
\* the open cases. Without a scheme (a letter, then letters, digits, '+',
\* '-', '.', closed by ':') the text is a relative URL without a base: an
\* error.
Url_parse(text) ==
  LET t == UrlTrim(text)
      stop == SetMin({i \in 1..(Len(t) + 1) : i = Len(t) + 1 \/ ~IsSchemeChar(t[i])})
  IN
  IF Len(t) >= 1 /\ IsAlpha(t[1]) /\ stop <= Len(t) /\ t[stop] = 58
    THEN parse_with_scheme(Lower(SubSeq(t, 1, stop - 1)), From(t, stop + 1))
    ELSE {UrlErr}

\* next_code_point, the decoder of a str, which trusts its bytes: at offset
\* i (from 0) the byte x gives the width (1 below 128, 2 below 0xE0, 3 below
\* 0xF0, else 4) and the other bytes give six bits each, whatever they are.
\* cp is None where the decoder would read past the end of the text.
next_code_point(v, i) ==
  LET x == v[i + 1]
      w == IF x < 128 THEN 1 ELSE IF x < 224 THEN 2 ELSE IF x < 240 THEN 3 ELSE 4
      c(k) == v[i + k] % 64
  IN
  IF i + w > Len(v) THEN [cp |-> None, next |-> Len(v)]
  ELSE [cp |-> IF w = 1 THEN x
               ELSE IF w = 2 THEN (x % 32) * 64 + c(2)
               ELSE IF w = 3 THEN (x % 32) * 4096 + c(2) * 64 + c(3)
               ELSE (x % 8) * 262144 + c(2) * 4096 + c(3) * 64 + c(4),
        next |-> i + w]

\* The offset of the first decoded character that is no C0 control and no
\* space (the start of the trimmed text); None where the decoder reads past
\* the end before it.
RECURSIVE trim_start_unchecked(_, _)
trim_start_unchecked(v, i) ==
  IF i >= Len(v) THEN i
  ELSE IF next_code_point(v, i).cp = None THEN None
  ELSE IF next_code_point(v, i).cp <= SP THEN trim_start_unchecked(v, next_code_point(v, i).next)
  ELSE i

\* Parser::parse_scheme on the decoded characters from offset i: the scheme
\* in lower case, or the empty sequence where there is none or the decoder
\* reads past the end before its ':'. Tab, LF and CR are skipped.
RECURSIVE parse_scheme_unchecked(_, _, _)
parse_scheme_unchecked(v, i, scheme) ==
  IF i = None \/ i >= Len(v) THEN << >>
  ELSE IF next_code_point(v, i).cp = None THEN << >>
  ELSE IF next_code_point(v, i).cp \in {9, LF, CR}
    THEN parse_scheme_unchecked(v, next_code_point(v, i).next, scheme)
  ELSE IF next_code_point(v, i).cp = 58 THEN scheme
  ELSE IF next_code_point(v, i).cp < 128
          /\ (IF scheme = << >> THEN IsAlpha(next_code_point(v, i).cp)
              ELSE IsSchemeChar(next_code_point(v, i).cp))
    THEN parse_scheme_unchecked(v, next_code_point(v, i).next,
                                Append(scheme, ToLower(next_code_point(v, i).cp)))
  ELSE << >>

\* Url::parse(str::from_utf8_unchecked(bytes)): for bytes that are valid
\* UTF-8 this is Url::parse of the text. For bytes that are not, building the
\* str is undefined behaviour: the decoder takes the bytes for characters
\* they do not encode and may read past the end of the text, and the call
\* panics or the process is killed, or it returns a ParseError, or it returns
\* a URL with the scheme read from the decoded characters.
from_utf8_unchecked(valid, parsed, scheme) ==
  IF valid THEN parsed
  ELSE {UrlDies, UrlErr} \cup (IF scheme # << >> THEN {UrlOk(scheme, NotModelled)} ELSE {})
Url_parse_unchecked(bytes) ==
  from_utf8_unchecked(from_utf8(bytes), Url_parse(bytes),
                      parse_scheme_unchecked(bytes, trim_start_unchecked(bytes, 0), << >>))

\* ---------------------------------------------------------------- lib.rs: frames
\* A frame object: a Request (url) or a Response (status, meta); the fields
\* of the other type stay None.
Request_new == [type |-> "Request", url |-> NoneOpt, status |-> NoneOpt, meta |-> NoneOpt]
Response_new == [type |-> "Response", url |-> NoneOpt, status |-> NoneOpt, meta |-> NoneOpt]
NoObject == [type |-> "none", url |-> NoneOpt, status |-> NoneOpt, meta |-> NoneOpt]

\* Request::parse(&mut self, buf): the set of possible results, each the
\* object after the call, the value returned (Crash if the call does not
\* return) and the cursor's final offset. The set has one element unless the
\* line is not valid UTF-8 or its URL is one of the open cases.
Request_parse(self, buf) ==
  LET sk == skip_empty_lines(buf, 0) IN
  IF sk.ret.kind # "Complete"
    THEN {[self |-> self, ret |-> sk.ret, pos |-> sk.pos]}
  ELSE
    LET start == sk.pos
        ln == next_line(buf, sk.pos)
    IN
    IF ln.ret.kind # "Complete"
      THEN {[self |-> self, ret |-> ln.ret, pos |-> ln.pos]}
    ELSE
      LET end == ln.ret.val IN
      { IF u.dies THEN [self |-> self, ret |-> Crash, pos |-> ln.pos]
        ELSE IF u.ok
          THEN [self |-> [self EXCEPT !.url = Some(u.url)],
                ret |-> Complete(ln.pos), pos |-> ln.pos]
          ELSE [self |-> self, ret |-> Err("ParseUrl"), pos |-> ln.pos]
        : u \in Url_parse_unchecked(Slice(buf, start, end)) }

\* Mutant of Response_parse: the byte after the status is consumed without
\* being compared with the space.
Response_parse_AnySeparator(self, buf) ==
  LET ps == parse_status(buf, 0) IN
  IF ps.ret.kind # "Complete"
    THEN [self |-> self, ret |-> ps.ret, pos |-> ps.pos]
  ELSE
    LET self1 == [self EXCEPT !.status = Some(ps.ret.val)]
        sp == next(buf, ps.pos)
    IN
    IF sp.item = None THEN [self |-> self1, ret |-> Partial, pos |-> sp.pos]
    ELSE
      LET start == sp.pos
          ln == next_line_limit(buf, sp.pos, META_MAX_LENGTH)
      IN
      IF ln.ret.kind # "Complete"
        THEN [self |-> self1, ret |-> ln.ret, pos |-> ln.pos]
      ELSE
        LET end == ln.ret.val
            content == Slice(buf, start, end)
        IN
        IF ~from_utf8(content)
          THEN [self |-> self1, ret |-> Err("InvalidUtf8"), pos |-> ln.pos]
          ELSE [self |-> [self1 EXCEPT !.meta = Some(content)],
                ret |-> Complete(0), pos |-> ln.pos]

\* Response::parse(&mut self, buf): the object after the call, the value
\* returned and the cursor's final offset. status is assigned as soon as
\* parse_status completes.
Response_parse(self, buf) ==
  LET ps == parse_status(buf, 0) IN
  IF ps.ret.kind # "Complete"
    THEN [self |-> self, ret |-> ps.ret, pos |-> ps.pos]
  ELSE
    LET self1 == [self EXCEPT !.status = Some(ps.ret.val)]
        sp == next(buf, ps.pos)
    IN
    IF sp.item = None THEN [self |-> self1, ret |-> Partial, pos |-> sp.pos]
    ELSE IF sp.item # SP THEN [self |-> self1, ret |-> Err("ResponseHeader"), pos |-> sp.pos]
    ELSE
      LET start == sp.pos
          ln == next_line_limit(buf, sp.pos, META_MAX_LENGTH)
      IN
      IF ln.ret.kind # "Complete"
        THEN [self |-> self1, ret |-> ln.ret, pos |-> ln.pos]
      ELSE
        LET end == ln.ret.val
            content == Slice(buf, start, end)
        IN
        IF ~from_utf8(content)
          THEN [self |-> self1, ret |-> Err("InvalidUtf8"), pos |-> ln.pos]
          ELSE [self |-> [self1 EXCEPT !.meta = Some(content)],
                ret |-> Complete(0), pos |-> ln.pos]

\* ---------------------------------------------------------------- inputs
\* Bounds of the buffers the model enumerates.
MaxReqLen == 3
MaxResLen == 4
MaxScanLen == 5
MaxStatusLen == 2
MaxLimit == 3

\* The length up to which a chain of Partial calls is counted.
MaxChain == 2

\* The tail of a long literal that arrives byte by byte; its head arrives in
\* one piece.
TailLen == 3

\* Bytes a caller appends to a request buffer: CR, LF, 'a', ':', 0xFF (never
\* valid in UTF-8) and 0xC0 (which the unchecked decoder joins with the byte
\* after it); to a response buffer: CR, LF, '1' and ' '.
RequestBytes == {CR, LF, 97, 58, 192, 255}
ResponseBytes == {CR, LF, 49, SP}

\* Bytes of the buffers the scanners are called on directly: line bytes, and
\* the digits with the byte before '0' and the byte after '9'.
LineBytes == {CR, LF, 97}
StatusBytes == (ZERO - 1)..(NINE + 1)

Rep(n, b) == [i \in 1..n |-> b]
IsPrefix(p, s) == Len(p) <= Len(s) /\ SubSeq(s, 1, Len(p)) = p
Prefix(s, k) == SubSeq(s, 1, k)
SeqsUpTo(S, n) == UNION {[1..k -> S] : k \in 0..n}

\* "gemini://example.com" CR LF, the request of test_request_parse.
GeminiLine ==
  << 103, 101, 109, 105, 110, 105, 58, 47, 47, 101, 120, 97, 109, 112, 108, 101,
     46, 99, 111, 109, CR, LF >>

\* "20 metadata" CR LF, the response of test_response_parse.
MetadataLine == << 50, 48, SP, 109, 101, 116, 97, 100, 97, 116, 97, CR, LF >>

\* Responses whose metadata is one byte under, at and one byte over the
\* ceiling, ended by CR LF, by LF, or by CR and a byte that is no LF; and one
\* whose metadata is at the ceiling and not valid UTF-8.
LongResponses ==
  {<< 50, 48, SP >> \o Rep(META_MAX_LENGTH + d, 97) \o t :
      d \in {-1, 0, 1}, t \in {<< CR, LF >>, << LF >>, << CR, 97 >>}}
  \cup {<< 50, 48, SP >> \o Rep(META_MAX_LENGTH - 1, 97) \o << 255, LF >>}

\* Requests "a:aa..a" whose line is one byte over the ceiling that responses
\* have, ended by CR LF or by LF.
LongRequests ==
  {<< 97, 58 >> \o Rep(META_MAX_LENGTH - 1, 97) \o t : t \in {<< CR, LF >>, << LF >>}}

\* Short literals outside the enumerated buffers. Requests: one with a space
\* before the URL, one with a two-byte character, one after blank lines and
\* before the start of a second request, one after a blank line that is not
\* valid UTF-8, "ws://X" and a two-byte character (a host for IDNA with an
\* upper-case letter), "a://" and DEL (a host of one control byte), and "a:"
\* with the bytes C0 80 (not UTF-8, decoded as NUL). Responses: one with invalid UTF-8, one with a two-byte
\* character, one with no space after the status, one before the start of a
\* second response.
ShortRequests == {GeminiLine, << SP, 97, 58, LF >>, << 97, 58, 195, 169, CR, LF >>,
                  << CR, LF, LF, 97, 58, 97, CR, LF, 97, 58 >>,
                  << LF, 97, 58, 255, CR, LF >>,
                  << 119, 115, 58, 47, 47, 88, 195, 169, LF >>,
                  << 97, 58, 47, 47, 127, CR, LF >>,
                  << 97, 58, 192, 128, LF >>}
ShortResponses == {MetadataLine, << 49, 49, SP, 255, CR, LF >>, << 49, 49, SP, 195, 169, LF >>,
                   << 49, 49, 97, LF >>, << 49, 49, SP, 97, LF, 50, 48 >>}

\* The buffers a caller may hold for a frame object of a type: the enumerated
\* ones, every prefix of a short literal, and the prefixes of a long literal
\* that end in its tail.
IsRequestInput(s) ==
  \/ Len(s) <= MaxReqLen /\ \A i \in 1..Len(s) : s[i] \in RequestBytes
  \/ \E l \in ShortRequests : IsPrefix(s, l)
  \/ /\ Len(s) > Len(GeminiLine)
     /\ \E l \in LongRequests : Len(s) >= Len(l) - TailLen /\ IsPrefix(s, l)

IsResponseInput(s) ==
  \/ Len(s) <= MaxResLen /\ \A i \in 1..Len(s) : s[i] \in ResponseBytes
  \/ \E l \in ShortResponses : IsPrefix(s, l)
  \/ /\ Len(s) > Len(MetadataLine)
     /\ \E l \in LongResponses : Len(s) >= Len(l) - TailLen /\ IsPrefix(s, l)

IsInput(type, s) == IF type = "Request" THEN IsRequestInput(s) ELSE IsResponseInput(s)

\* The heads of the long literals, which arrive in one piece.
LongHeads == {Prefix(l, Len(l) - TailLen) : l \in LongResponses \cup LongRequests}

ScanInputs == SeqsUpTo(LineBytes, MaxScanLen) \cup SeqsUpTo(StatusBytes, MaxStatusLen)

\* ---------------------------------------------------------------- state
VARIABLES
  buf,    \* the bytes the caller has received so far
  obj,    \* the caller's frame object (Request or Response)
  pos,    \* the offset of the caller's cursor (direct scanner calls)
  last,   \* the last call: its operation, state before, result
  chain   \* calls made on obj since it was created that all returned
          \* Partial, each on a strict extension of the buffer before
          \* (counted up to MaxChain); -1 once the object has seen anything else

vars == << buf, obj, pos, last, chain >>

NoCall ==
  [op |-> "none", limit |-> None, start |-> 0, ret |-> Partial, pos |-> 0,
   pre |-> NoObject, chain |-> -1]

Call(op, limit, start, ret, endpos, pre, ch) ==
  [op |-> op, limit |-> limit, start |-> start, ret |-> ret, pos |-> endpos,
   pre |-> pre, chain |-> ch]

\* ---------------------------------------------------------------- the caller of the frame parsers
Init ==
  /\ buf = << >>
  /\ obj \in {Request_new, Response_new}
  /\ pos = 0
  /\ last = NoCall
  /\ chain = 0

\* The caller's process runs: no call has crashed it.
Alive == last.ret.kind # "Crash"

\* Request::new() for a new connection: a fresh object and an empty buffer.
RequestNew ==
  /\ Alive
  /\ obj' = Request_new
  /\ buf' = << >>
  /\ last' = NoCall
  /\ chain' = 0
  /\ UNCHANGED pos

\* Response::new() for a new connection.
ResponseNew ==
  /\ Alive
  /\ obj' = Response_new
  /\ buf' = << >>
  /\ last' = NoCall
  /\ chain' = 0
  /\ UNCHANGED pos

\* The bytes that may arrive next: those of the type's alphabet, and the
\* next byte of a literal the buffer is a prefix of.
NextBytes ==
  LET lits == IF obj.type = "Request"
                THEN IF Len(buf) > Len(GeminiLine) THEN LongRequests ELSE ShortRequests
              ELSE IF Len(buf) > Len(MetadataLine) THEN LongResponses ELSE ShortResponses
  IN (IF obj.type = "Request" THEN RequestBytes ELSE ResponseBytes)
     \cup {l[Len(buf) + 1] : l \in {m \in lits : Len(m) > Len(buf)}}

\* The caller receives one more byte.
Receive(b) ==
  /\ Alive
  /\ IsInput(obj.type, Append(buf, b))
  /\ buf' = Append(buf, b)
  /\ last' = NoCall
  /\ UNCHANGED << obj, pos, chain >>

\* The caller receives many bytes at once: the head of a long literal, once
\* it holds the literal's status and space (a response) or its scheme and
\* colon (a request).
ReceiveBurst(s) ==
  /\ Alive
  /\ Len(buf) = (IF obj.type = "Request" THEN 2 ELSE 3)
  /\ IsPrefix(buf, s)
  /\ buf' = s
  /\ last' = NoCall
  /\ UNCHANGED << obj, pos, chain >>

\* The caller empties its buffer and keeps its object.
Discard ==
  /\ Alive
  /\ buf # << >>
  /\ buf' = << >>
  /\ last' = NoCall
  /\ chain' = IF chain = 0 THEN 0 ELSE -1
  /\ UNCHANGED << obj, pos >>

\* The chain this call continues: none if the buffer is the one of the call before.
ChainBefore == IF last.op = "none" THEN chain ELSE -1
ChainAfter(ret) ==
  IF ChainBefore >= 0 /\ ret.kind = "Partial"
    THEN (IF ChainBefore < MaxChain THEN ChainBefore + 1 ELSE MaxChain)
    ELSE -1

\* req.parse(buf)
RequestParse ==
  /\ Alive
  /\ obj.type = "Request"
  /\ \E r \in Request_parse(obj, buf) :
       /\ obj' = r.self
       /\ last' = Call("Request.parse", None, 0, r.ret, r.pos, obj, ChainBefore)
       /\ chain' = ChainAfter(r.ret)
  /\ UNCHANGED << buf, pos >>

\* res.parse(buf)
ResponseParse ==
  /\ Alive
  /\ obj.type = "Response"
  /\ LET r == Response_parse(obj, buf) IN
       /\ obj' = r.self
       /\ last' = Call("Response.parse", None, 0, r.ret, r.pos, obj, ChainBefore)
       /\ chain' = ChainAfter(r.ret)
  /\ UNCHANGED << buf, pos >>

Next ==
  \/ RequestNew
  \/ ResponseNew
  \/ \E b \in NextBytes : Receive(b)
  \/ \E s \in LongHeads : ReceiveBurst(s)
  \/ Discard
  \/ RequestParse
  \/ ResponseParse

Spec == Init /\ [][Next]_vars

\* ---------------------------------------------------------------- direct calls of the scanners
\* The unit tests' use: a cursor over a buffer, a scanner called on it.
ScanInit ==
  /\ buf \in ScanInputs
  /\ obj = NoObject
  /\ pos = 0
  /\ last = NoCall
  /\ chain = -1

\* Bytes::new(buf): a new cursor over the same buffer.
BytesNew ==
  /\ last.op # "none"
  /\ pos' = 0
  /\ last' = NoCall
  /\ UNCHANGED << buf, obj, chain >>

SkipEmptyLines ==
  /\ LET r == skip_empty_lines(buf, pos) IN
       /\ pos' = r.pos
       /\ last' = Call("skip_empty_lines", None, pos, r.ret, r.pos, NoObject, -1)
  /\ UNCHANGED << buf, obj, chain >>

NextLine ==
  /\ LET r == next_line(buf, pos) IN
       /\ pos' = r.pos
       /\ last' = Call("next_line", None, pos, r.ret, r.pos, NoObject, -1)
  /\ UNCHANGED << buf, obj, chain >>

NextLineLimit(limit) ==
  /\ LET r == next_line_limit(buf, pos, limit) IN
       /\ pos' = r.pos
       /\ last' = Call("next_line_limit", limit, pos, r.ret, r.pos, NoObject, -1)
  /\ UNCHANGED << buf, obj, chain >>

ParseStatus ==
  /\ LET r == parse_status(buf, pos) IN
       /\ pos' = r.pos
       /\ last' = Call("parse_status", None, pos, r.ret, r.pos, NoObject, -1)
  /\ UNCHANGED << buf, obj, chain >>

ScanNext ==
  \/ BytesNew
  \/ SkipEmptyLines
  \/ NextLine
  \/ \E limit \in 0..MaxLimit : NextLineLimit(limit)
  \/ ParseStatus

SpecScan == ScanInit /\ [][ScanNext]_vars

\* Both callers in one specification: a state with a frame object steps as
\* the caller of the frame parsers, a state without one as the direct caller
\* of the scanners.
AllInit == Init \/ ScanInit
AllNext == (obj # NoObject /\ Next) \/ (obj = NoObject /\ ScanNext)
SpecAll == AllInit /\ [][AllNext]_vars

\* ---------------------------------------------------------------- the grammar, for reference
\* The wire grammar, written without the scanners: terminators, the run of
\* blank lines, the content up to the first CR or LF.
IsTermByte(b) == b = CR \/ b = LF

\* The length of the terminator at offset i: 2 for CR LF, 1 for LF, 0 for none.
TermAt(s, i) ==
  IF i + 1 < Len(s) /\ s[i + 1] = CR /\ s[i + 2] = LF THEN 2
  ELSE IF i < Len(s) /\ s[i + 1] = LF THEN 1
  ELSE 0

\* The offset after the blank lines that start at offset i.
RECURSIVE BlankEnd(_, _)
BlankEnd(s, i) == IF TermAt(s, i) > 0 THEN BlankEnd(s, i + TermAt(s, i)) ELSE i

\* The offset of the first CR or LF at or after offset i; Len(s) if there is none.
ContentEnd(s, i) ==
  SetMin({j \in i..Len(s) : j = Len(s) \/ IsTermByte(s[j + 1])})

\* A request frame at the start of s: blank lines, then a line ended by a terminator.
ReqStart(s) == BlankEnd(s, 0)
ReqEnd(s) == ContentEnd(s, ReqStart(s))
ReqContent(s) == SubSeq(s, ReqStart(s) + 1, ReqEnd(s))
ReqWellFormed(s) ==
  /\ ReqStart(s) < Len(s)
  /\ ~IsTermByte(s[ReqStart(s) + 1])
  /\ TermAt(s, ReqEnd(s)) > 0

\* A response frame at the start of s: two digits, a space, then a line of at
\* most META_MAX_LENGTH bytes ended by a terminator.
IsAsciiDigit(b) == b \in 48..57
ResEnd(s) == ContentEnd(s, 3)
ResContent(s) == SubSeq(s, 4, ResEnd(s))
ResWellFormed(s) ==
  /\ Len(s) >= 3
  /\ IsAsciiDigit(s[1]) /\ IsAsciiDigit(s[2]) /\ s[3] = SP
  /\ ResEnd(s) - 3 <= META_MAX_LENGTH
  /\ TermAt(s, ResEnd(s)) > 0

IsParse == last.op \in {"Request.parse", "Response.parse"}

\* ---------------------------------------------------------------- claims
\* C1: a Partial result leaves the target unchanged: when Request.parse or
\* Response.parse returns Partial, every field of the object has the value it
\* had before the call. (Refuted: Response.parse assigns status before the
\* rest of the frame is scanned.)
C1_PartialLeavesTargetUnchanged ==
  (IsParse /\ last.ret.kind = "Partial") => obj = last.pre

\* The strict prefixes of a buffer of n bytes that are parsed again: all of
\* them, except for a long literal, whose prefixes are the first CutLen and
\* the last CutLen (between them lie only more bytes of the same metadata).
CutLen == 8
PrefixCuts(n) ==
  IF n <= 2 * CutLen THEN 0..(n - 1) ELSE (0..(CutLen - 1)) \cup ((n - CutLen)..(n - 1))

\* C2: for a buffer on which parse returns Complete and whose last byte is the
\* LF of the content line's terminator, parsing any strict prefix on a fresh
\* object returns Partial, with the cursor inside the prefix.
C2_StrictPrefixesArePartial ==
  (IsParse /\ last.ret.kind = "Complete" /\ last.pos = Len(buf)) =>
    \A k \in PrefixCuts(Len(buf)) :
      IF last.op = "Request.parse"
        THEN \A r \in Request_parse(Request_new, Prefix(buf, k)) :
               r.ret = Partial /\ r.pos <= k
        ELSE LET r == Response_parse(Response_new, Prefix(buf, k)) IN
               r.ret = Partial /\ r.pos <= k

\* C2 witness: a request with blank lines before it and a CR LF after it has
\* completed, the frame filling the buffer.
C2_Witness ==
  /\ last.op = "Request.parse"
  /\ last.ret.kind = "Complete"
  /\ last.pos = Len(buf)
  /\ ReqStart(buf) > 0
  /\ TermAt(buf, ReqEnd(buf)) = 2

\* C3: a buffer whose grammar is well-formed but whose line content is not
\* valid UTF-8 makes Request.parse and Response.parse return
\* Error::InvalidUtf8. (Refuted: Request.parse never validates the bytes.)
C3_InvalidUtf8YieldsEncodingError ==
  (\/ last.op = "Request.parse" /\ ReqWellFormed(buf) /\ ~from_utf8(ReqContent(buf))
   \/ last.op = "Response.parse" /\ ResWellFormed(buf) /\ ~from_utf8(ResContent(buf)))
  => last.ret = Err("InvalidUtf8")

\* The response opens with two digits and a space, so scanning reaches the
\* metadata line at offset 3.
ResHeadOk(s) ==
  Len(s) >= 3 /\ IsAsciiDigit(s[1]) /\ IsAsciiDigit(s[2]) /\ s[3] = SP

\* No terminator yet after the content that ends at offset e: the buffer ends
\* there, or with a CR there.
NoTermYet(s, e) == e = Len(s) \/ (s[e + 1] = CR /\ e + 1 = Len(s))

\* The boundary of a line of n content bytes from offset p under ceiling L,
\* as the scanner reports it.
LineBoundary(s, p, L, ret, endpos) ==
  LET e == ContentEnd(s, p)
      n == e - p
  IN
  /\ n >= L + 1 => ret = Err("NewLine")
  /\ (n = L /\ TermAt(s, e) > 0) => (ret = Complete(e) /\ endpos = e + TermAt(s, e))
  /\ (n <= L /\ NoTermYet(s, e)) => ret = Partial

\* C4: with ceiling L (any L in next_line_limit, META_MAX_LENGTH in
\* Response.parse), a line of exactly L content bytes and a terminator
\* completes (in Response.parse the completed line then goes through the
\* UTF-8 check); L + 1 content bytes give Error::NewLine, whatever follows;
\* L or fewer content bytes with no terminator yet give Partial.
C4_LengthBoundary ==
  /\ last.op = "next_line_limit" =>
       LineBoundary(buf, last.start, last.limit, last.ret, last.pos)
  /\ (last.op = "Response.parse" /\ ResHeadOk(buf)) =>
       LET e == ResEnd(buf)
           n == e - 3
       IN
       /\ n >= META_MAX_LENGTH + 1 => last.ret = Err("NewLine")
       /\ (n = META_MAX_LENGTH /\ TermAt(buf, e) > 0) =>
            IF from_utf8(ResContent(buf))
              THEN last.ret.kind = "Complete" /\ obj.meta = Some(ResContent(buf))
              ELSE last.ret = Err("InvalidUtf8")
       /\ (n <= META_MAX_LENGTH /\ NoTermYet(buf, e)) => last.ret = Partial

\* C4 witness: a response whose metadata has exactly META_MAX_LENGTH bytes has
\* completed.
C4_Witness ==
  /\ last.op = "Response.parse"
  /\ ResHeadOk(buf)
  /\ ResEnd(buf) - 3 = META_MAX_LENGTH
  /\ TermAt(buf, ResEnd(buf)) = 2
  /\ last.ret.kind = "Complete"
  /\ Len(obj.meta[1]) = META_MAX_LENGTH

\* The request line of s is text: its content is valid UTF-8, or s holds no
\* complete request line. Url::parse is a function of a text; on a line that
\* is not text the call is undefined, and nothing relates two results of it.
ReqLineIsText(s) == ReqWellFormed(s) => from_utf8(ReqContent(s))

\* What C5 says of the offsets of a call that has returned Complete(n): n is
\* the cursor's final offset, the bytes of the blank lines plus the content
\* plus the terminator (2 for CR LF, 1 for LF), n is within the buffer, and
\* the call's result is the result on the first n bytes alone (no byte from
\* offset n on decides anything).
ConsumedFrame ==
  LET blank == ReqStart(buf)
      content == ReqEnd(buf) - ReqStart(buf)
      term == TermAt(buf, ReqEnd(buf))
      n == last.ret.val
  IN
  /\ term \in {1, 2}
  /\ n = blank + content + term
  /\ n = last.pos
  /\ n <= Len(buf)
  /\ [self |-> obj, ret |-> last.ret, pos |-> last.pos]
       \in Request_parse(last.pre, Prefix(buf, n))

\* The url stored is Url::parse of the content bytes, which are a text: the
\* bytes between the blank lines and the terminator, found without the
\* scanners.
StoredUrlIsOfContent ==
  /\ from_utf8(ReqContent(buf))
  /\ obj.url \in {Some(u.url) : u \in {v \in Url_parse(ReqContent(buf)) : v.ok}}

\* C5: when Request.parse returns Complete(n), n is the cursor's final offset,
\* the bytes of the blank lines plus the content plus the terminator (2 for
\* CR LF, 1 for LF), n is within the buffer, the url stored is the parse of
\* exactly the content bytes, and the call's result is the result on the first
\* n bytes alone (no byte from offset n on decides anything). (Refuted:
\* Request.parse returns Complete on a line that is not valid UTF-8, with a
\* url read from characters the content bytes do not encode.)
C5_ConsumedIsFrameLength ==
  (last.op = "Request.parse" /\ last.ret.kind = "Complete") =>
    ConsumedFrame /\ StoredUrlIsOfContent

\* The part of C5 that holds: the offsets, on every request line; the url, on
\* every request line that is valid UTF-8.
ConsumedIsFrameLength_OnText ==
  (last.op = "Request.parse" /\ last.ret.kind = "Complete") =>
    /\ ConsumedFrame
    /\ from_utf8(ReqContent(buf)) => StoredUrlIsOfContent

\* A request after blank lines has completed on a buffer that holds more
\* bytes than the frame.
ConsumedIsFrameLength_Reached ==
  /\ last.op = "Request.parse"
  /\ last.ret.kind = "Complete"
  /\ ReqStart(buf) = 3
  /\ last.ret.val = 8
  /\ Len(buf) > last.ret.val

\* C6 as stated: Request.parse on "gemini://example.com" CR LF returns
\* Complete with consumed = 23. (Refuted: the frame has 22 bytes.)
C6_Consumed23 ==
  (last.op = "Request.parse" /\ buf = GeminiLine) => last.ret = Complete(23)

\* C6 as amended: Request.parse on the 20 content bytes
\* "gemini://example.com" followed by CR LF returns Complete with consumed =
\* 22, and the URL is accepted, with scheme "gemini".
C6_Consumed22 ==
  (last.op = "Request.parse" /\ buf = GeminiLine) =>
    /\ Len(GeminiLine) = 20 + 2
    /\ last.ret = Complete(22)
    /\ obj.url # NoneOpt
    /\ obj.url[1].scheme = << 103, 101, 109, 105, 110, 105 >>

\* C6 witness: the request of the end-to-end scenario has been parsed.
C6_Witness ==
  /\ last.op = "Request.parse"
  /\ buf = GeminiLine
  /\ last.ret.kind = "Complete"

\* Result a is the result of the parse whose possible results are R, on buffer
\* s. On a request line that is text, and on a response, the result is a
\* function of the buffer (which the model leaves open for some URLs), and a
\* is one of R. On a request line that is not valid UTF-8 no function gives
\* the result, and a is the result only if R holds nothing else.
IsTheResult(R, s, a) ==
  IF last.op = "Request.parse" /\ ~ReqLineIsText(s) THEN R = {a} ELSE a \in R

\* What parse returns and leaves in a fresh object of the type of the last
\* call, on buffer s: the set of the results a build can produce.
FreshParse(s) ==
  IF last.op = "Request.parse"
    THEN {[ret |-> r.ret, self |-> r.self] : r \in Request_parse(Request_new, s)}
    ELSE LET r == Response_parse(Response_new, s) IN {[ret |-> r.ret, self |-> r.self]}

ReentryIsHistoryIndependent_OnText ==
  (IsParse /\ last.chain >= 0 /\ (last.op = "Request.parse" => ReqLineIsText(buf))) =>
    [ret |-> last.ret, self |-> obj] \in FreshParse(buf)

\* A response has completed on the third or a later call of such a chain, the
\* calls before it having left a status in the object.
ReentryIsHistoryIndependent_Reached ==
  /\ last.op = "Response.parse"
  /\ last.chain >= 2
  /\ last.pre.status # NoneOpt
  /\ last.ret.kind = "Complete"

\* C8: a CR that the scanner reaches, followed by a byte that is present and
\* is not LF (a second CR included), gives Error::NewLine: in
\* skip_empty_lines after any run of blank lines, and in next_line and
\* next_line_limit after any content.
C8_MalformedTerminator ==
  /\ last.op = "skip_empty_lines" =>
       LET i == BlankEnd(buf, last.start) IN
       (i + 1 < Len(buf) /\ buf[i + 1] = CR /\ buf[i + 2] # LF)
         => last.ret = Err("NewLine")
  /\ last.op \in {"next_line", "next_line_limit"} =>
       LET e == ContentEnd(buf, last.start) IN
       (e + 1 < Len(buf) /\ buf[e + 1] = CR /\ buf[e + 2] # LF)
         => last.ret = Err("NewLine")

\* C8 witness: skip_empty_lines has skipped a blank line and then met a CR
\* followed by a second CR.
C8_Witness ==
  /\ last.op = "skip_empty_lines"
  /\ last.start = 0
  /\ BlankEnd(buf, 0) = 2
  /\ Len(buf) >= 4
  /\ buf[3] = CR /\ buf[4] = CR
  /\ last.ret.kind = "Err"

\* C9: parse_status against the reference: first byte absent, Partial; first
\* byte no digit, Error::Status; second byte absent, Partial; second byte no
\* digit, Error::Status; otherwise Complete(tens * 10 + ones), a value in
\* 0..99, with exactly 2 bytes consumed.
C9_ParseStatusReference ==
  last.op = "parse_status" =>
    LET p == last.start IN
    IF p >= Len(buf) THEN last.ret = Partial
    ELSE IF ~IsAsciiDigit(buf[p + 1]) THEN last.ret = Err("Status")
    ELSE IF p + 1 >= Len(buf) THEN last.ret = Partial
    ELSE IF ~IsAsciiDigit(buf[p + 2]) THEN last.ret = Err("Status")
    ELSE /\ last.ret = Complete((buf[p + 1] - 48) * 10 + (buf[p + 2] - 48))
         /\ last.ret.val \in 0..99
         /\ last.pos = p + 2

\* C9 witness: parse_status has parsed "90".
C9_Witness ==
  /\ last.op = "parse_status"
  /\ buf = << 57, 48 >>
  /\ last.ret = Complete(90)

IsStatusCallAtStart ==
  (last.op = "parse_status" /\ last.start = 0) \/ last.op = "Response.parse"

\* C10 as stated: on every buffer of exactly 1 byte parse_status, and so
\* Response.parse, returns Partial. (Refuted: a byte that is no digit gives
\* Error::Status.)
C10_OneByteIsPartial ==
  (IsStatusCallAtStart /\ Len(buf) = 1) => last.ret = Partial

\* C10 as amended: on a buffer of exactly 1 byte parse_status, and so
\* Response.parse, returns Partial if the byte is an ASCII digit and
\* Error::Status if it is not.
C10_OneByteDigitIsPartial ==
  (IsStatusCallAtStart /\ Len(buf) = 1) =>
    IF IsAsciiDigit(buf[1]) THEN last.ret = Partial ELSE last.ret = Err("Status")

\* C10 witness: Response.parse has been called on a single digit.
C10_Witness ==
  /\ last.op = "Response.parse"
  /\ Len(buf) = 1
  /\ IsAsciiDigit(buf[1])
  /\ last.ret = Partial

\* C11: after two status digits, Response.parse returns Partial if the buffer
\* has no third byte, Error::ResponseHeader if the third byte is present and
\* is no space, whatever follows it; only after a space does scanning go on
\* to the metadata line (the cursor passes offset 3 and the result is the
\* metadata line's).
C11_ResponseSeparator ==
  (last.op = "Response.parse" /\ Len(buf) >= 2
     /\ IsAsciiDigit(buf[1]) /\ IsAsciiDigit(buf[2])) =>
    IF Len(buf) = 2 THEN last.ret = Partial /\ last.pos = 2
    ELSE IF buf[3] # SP THEN last.ret = Err("ResponseHeader") /\ last.pos = 3
    ELSE /\ last.ret # Err("ResponseHeader")
         /\ last.ret # Err("Status")
         /\ last.pos >= 3
         /\ (Len(buf) > 3 => last.pos > 3)

\* C11 witness: a response whose third byte is no space and that ends with a
\* valid terminator has been refused.
C11_Witness ==
  /\ last.op = "Response.parse"
  /\ buf = << 49, 49, 97, LF >>
  /\ last.ret = Err("ResponseHeader")

\* The same response with its terminator written the other way: CR LF for a
\* lone LF and a lone LF for CR LF.
OtherTerminator(s) ==
  SubSeq(s, 1, ResEnd(s)) \o (IF TermAt(s, ResEnd(s)) = 2 THEN << LF >> ELSE << CR, LF >>)

\* C12: when Response.parse returns Complete, the buffer is two digits, a
\* space, a content and a terminator (LF or CR LF); status is
\* Some(10 * d1 + d2) and meta is Some(content), the bytes between the space
\* and the first terminator without the terminator (possibly none); and the
\* same frame with the other terminator gives Complete with the same status
\* and meta.
C12_CompleteResponseFields ==
  (last.op = "Response.parse" /\ last.ret.kind = "Complete") =>
    /\ ResWellFormed(buf)
    /\ obj.status = Some(10 * (buf[1] - ZERO) + (buf[2] - ZERO))
    /\ obj.meta = Some(ResContent(buf))
    /\ \A i \in 1..Len(ResContent(buf)) : ~IsTermByte(ResContent(buf)[i])
    /\ LET other == Response_parse(Response_new, OtherTerminator(buf)) IN
       /\ other.ret.kind = "Complete"
       /\ other.self.status = obj.status
       /\ other.self.meta = obj.meta

\* C12 witness: a response with an empty content and a lone LF has completed.
C12_Witness ==
  /\ last.op = "Response.parse"
  /\ last.ret.kind = "Complete"
  /\ buf = << 49, 49, SP, LF >>
  /\ obj.meta = Some(<< >>)

\* The scan that started at last.start came to the buffer's last byte, a CR:
\* skip_empty_lines after blank lines only, a line scanner after content
\* bytes only and within its limit.
ReachedFinalCr ==
  /\ Len(buf) > 0
  /\ buf[Len(buf)] = CR
  /\ last.start < Len(buf)
  /\ \/ /\ last.op = "skip_empty_lines"
        /\ BlankEnd(buf, last.start) = Len(buf) - 1
     \/ /\ last.op \in {"next_line", "next_line_limit"}
        /\ ContentEnd(buf, last.start) = Len(buf) - 1
        /\ (last.limit # None => Len(buf) - 1 - last.start <= last.limit)

\* C13: a CR that is the last available byte makes skip_empty_lines, next_line
\* and next_line_limit return Partial with the cursor at the end of the
\* buffer; the same scan of the buffer extended by LF takes CR LF as a
\* terminator: skip_empty_lines passes it and the line scanners return
\* Complete with the line ending before the CR.
C13_CrAtEndIsPartial ==
  ReachedFinalCr =>
    /\ last.ret = Partial
    /\ last.pos = Len(buf)
    /\ LET more == buf \o << LF >> IN
       IF last.op = "skip_empty_lines"
         THEN LET r == skip_empty_lines(more, last.start) IN
              r.ret = Partial /\ r.pos = Len(more)
         ELSE LET r == next_line_inner(more, last.start, last.limit) IN
              r.ret = Complete(Len(buf) - 1) /\ r.pos = Len(more)

\* C13 witness: a line scanner has read content bytes and then a CR that ends
\* the buffer.
C13_Witness ==
  /\ ReachedFinalCr
  /\ last.op = "next_line_limit"
  /\ last.start < Len(buf) - 1
  /\ last.ret = Partial

\* C14: skip_empty_lines over k >= 0 blank terminators (CR LF or LF) followed
\* by a rest: with an empty rest it returns Partial with the cursor at the end
\* of the buffer; with a rest that starts with a byte other than CR and LF it
\* returns Complete with the cursor on that byte, which is not consumed.
C14_SkipEmptyLinesStopsAtContent ==
  last.op = "skip_empty_lines" =>
    LET e == BlankEnd(buf, last.start) IN
    /\ e = Len(buf) => (last.ret = Partial /\ last.pos = Len(buf))
    /\ (e < Len(buf) /\ ~IsTermByte(buf[e + 1])) =>
         (last.ret.kind = "Complete" /\ last.pos = e /\ peek(buf, last.pos) = buf[e + 1])

\* C14 witness: skip_empty_lines has passed a CR LF and a lone LF and stopped
\* on the content byte after them.
C14_Witness ==
  /\ last.op = "skip_empty_lines"
  /\ last.start = 0
  /\ buf = << CR, LF, LF, 97 >>
  /\ last.ret.kind = "Complete"
  /\ last.pos = 3

\* The cursor states of skip_empty_lines from st: st and the state after each
\* of up to n iterations of its loop.
RECURSIVE SkipVisited(_, _, _)
SkipVisited(slice, st, n) ==
  IF n = 0 THEN {st}
  ELSE IF n = 1 THEN {st, skip_empty_lines_step(slice, st)}
  ELSE LET half == n \div 2 IN
       SkipVisited(slice, st, half)
         \cup SkipVisited(slice, skip_empty_lines_loop(slice, st, half), n - half)

\* The cursor states of next_line_inner from st, in the same way.
RECURSIVE LineVisited(_, _, _, _, _)
LineVisited(slice, start, limit, st, n) ==
  IF n = 0 THEN {st}
  ELSE IF n = 1 THEN {st, next_line_inner_step(slice, start, limit, st)}
  ELSE LET half == n \div 2 IN
       LineVisited(slice, start, limit, st, half)
         \cup LineVisited(slice, start, limit,
                          next_line_inner_loop(slice, start, limit, st, half), n - half)

\* The cursor stays inside the buffer, and it moves only off a byte that peek
\* returned.
CursorIn(slice, p) == 0 <= p /\ p <= Len(slice)
MoveOk(slice, from, to) ==
  /\ CursorIn(slice, from) /\ CursorIn(slice, to)
  /\ from <= to
  /\ to > from => peek(slice, from) # None

SkipCursorOk(slice, start) ==
  \A st \in SkipVisited(slice, Running(start), Len(slice) + 1) :
    MoveOk(slice, st.pos, skip_empty_lines_step(slice, st).pos)

\* For a line scan, also: a Complete(end) has start <= end <= pos.
LineCursorOk(slice, start, limit) ==
  \A st \in LineVisited(slice, start, limit, Running(start), Len(slice) + 1) :
    LET t == next_line_inner_step(slice, start, limit, st) IN
    /\ MoveOk(slice, st.pos, t.pos)
    /\ (t.done /\ t.ret.kind = "Complete") =>
         (start <= t.ret.val /\ t.ret.val <= t.pos)

StatusCursorOk(slice, start) ==
  LET t == next(slice, start)
      o == next(slice, t.pos)
  IN MoveOk(slice, start, t.pos) /\ MoveOk(slice, t.pos, o.pos)
       /\ CursorIn(slice, parse_status(slice, start).pos)

\* C15: in every state of skip_empty_lines, next_line_inner, parse_status,
\* Request.parse and Response.parse the cursor satisfies 0 <= pos <= len; the
\* cursor moves only from an offset where peek returned a byte; and the range
\* sliced after a completed line scan satisfies start <= end <= pos <= len.
C15_CursorBounds ==
  /\ CursorIn(buf, last.start) /\ CursorIn(buf, last.pos)
  /\ last.op = "skip_empty_lines" => SkipCursorOk(buf, last.start)
  /\ last.op \in {"next_line", "next_line_limit"} =>
       LineCursorOk(buf, last.start, last.limit)
  /\ last.op = "parse_status" => StatusCursorOk(buf, last.start)
  /\ last.op = "Request.parse" =>
       LET sk == skip_empty_lines(buf, 0) IN
       /\ SkipCursorOk(buf, 0)
       /\ sk.ret.kind = "Complete" => LineCursorOk(buf, sk.pos, None)
  /\ last.op = "Response.parse" =>
       LET ps == parse_status(buf, 0)
           sp == next(buf, ps.pos)
       IN
       /\ StatusCursorOk(buf, 0)
       /\ ps.ret.kind = "Complete" => MoveOk(buf, ps.pos, sp.pos)
       /\ (ps.ret.kind = "Complete" /\ sp.item = SP) =>
            LineCursorOk(buf, sp.pos, META_MAX_LENGTH)

\* C15 witness: a request has been parsed to the end of its buffer, through
\* blank lines and a line that ends with CR LF.
C15_Witness ==
  /\ last.op = "Request.parse"
  /\ last.ret.kind = "Complete"
  /\ last.pos = Len(buf)
  /\ ReqStart(buf) > 0
  /\ TermAt(buf, ReqEnd(buf)) = 2

\* C16: no field is written until the whole frame validates: when
\* Request.parse returns an Error, url equals its value before the call; when
\* Response.parse returns an Error (Status, ResponseHeader, NewLine or
\* InvalidUtf8), status and meta equal their values before the call.
C16_ErrorLeavesTargetUnchanged ==
  (IsParse /\ last.ret.kind = "Err") =>
    /\ obj.url = last.pre.url
    /\ obj.status = last.pre.status
    /\ obj.meta = last.pre.meta

\* The request line of the buffer has more content bytes than the ceiling of
\* the response metadata.
LongRequestLine == ReqEnd(buf) - ReqStart(buf) > META_MAX_LENGTH

\* C17: Request.parse enforces no ceiling on the request line: a line of more
\* than 1024 content bytes with a valid terminator is never refused with
\* Error::NewLine, and without a terminator it is Partial; the same content
\* after a valid status and a space is refused by Response.parse with
\* Error::NewLine.
C17_AsymmetricLimits ==
  (last.op = "Request.parse" /\ LongRequestLine) =>
    /\ TermAt(buf, ReqEnd(buf)) > 0 => last.ret # Err("NewLine")
    /\ ReqEnd(buf) = Len(buf) => last.ret = Partial
    /\ LET rest == SubSeq(buf, ReqStart(buf) + 1, Len(buf))
           res == Response_parse(Response_new, << 50, 48, SP >> \o rest)
       IN res.ret = Err("NewLine")

\* C17 witness: a request line of more than 1024 content bytes with its
\* terminator has been parsed to Complete.
C17_Witness ==
  /\ last.op = "Request.parse"
  /\ LongRequestLine
  /\ TermAt(buf, ReqEnd(buf)) > 0
  /\ last.ret.kind = "Complete"

\* A returned value is exactly one of Complete, Partial and an Error of the
\* Error enum.
IsOutcome(ret) ==
  \/ ret.kind = "Complete" /\ ret.err = ""
  \/ ret = Partial
  \/ ret.kind = "Err" /\ ret.val = 0
       /\ ret.err \in {"NewLine", "InvalidUtf8", "ParseUrl", "ResponseHeader", "Status"}

\* skip_empty_lines from start: each iteration returns or moves the cursor
\* forward, and the loop has returned after at most one iteration per byte
\* left and one more.
SkipTerminates(slice, start) ==
  /\ \A st \in SkipVisited(slice, Running(start), Len(slice) + 1) :
       LET t == skip_empty_lines_step(slice, st) IN
       ~st.done => (t.done \/ t.pos > st.pos)
  /\ skip_empty_lines_loop(slice, Running(start), Len(slice) - start + 1).done
  /\ skip_empty_lines(slice, start).done

\* next_line_inner from start, in the same way.
LineTerminates(slice, start, limit) ==
  /\ \A st \in LineVisited(slice, start, limit, Running(start), Len(slice) + 1) :
       LET t == next_line_inner_step(slice, start, limit, st) IN
       ~st.done => (t.done \/ t.pos > st.pos)
  /\ next_line_inner_loop(slice, start, limit, Running(start), Len(slice) - start + 1).done
  /\ next_line_inner(slice, start, limit).done

\* C18: every parse call returns, with exactly one of Complete, Partial and
\* Error, and never panics;
\* each iteration of the loops of skip_empty_lines and next_line_inner returns
\* or strictly advances the cursor, so a call on n bytes makes at most n
\* advances and its loops end. (Refuted: Request.parse need not return on a
\* line that is not valid UTF-8 nor, with debug assertions, on a host that
\* goes through IDNA with an upper-case letter.)
C18_CallsTerminate ==
  /\ last.op # "none" => IsOutcome(last.ret)
  /\ last.op = "skip_empty_lines" => SkipTerminates(buf, last.start)
  /\ last.op \in {"next_line", "next_line_limit"} =>
       LineTerminates(buf, last.start, last.limit)
  /\ last.op \in {"skip_empty_lines", "next_line", "next_line_limit", "parse_status"} =>
       last.pos - last.start <= Len(buf) - last.start
  /\ last.op = "Request.parse" =>
       LET sk == skip_empty_lines(buf, 0) IN
       /\ SkipTerminates(buf, 0)
       /\ sk.ret.kind = "Complete" => LineTerminates(buf, sk.pos, None)
       /\ \A r \in Request_parse(last.pre, buf) : IsOutcome(r.ret)
  /\ last.op = "Response.parse" =>
       LET ps == parse_status(buf, 0) IN
       (ps.ret.kind = "Complete" /\ peek(buf, ps.pos) = SP) =>
         LineTerminates(buf, 3, META_MAX_LENGTH)

IsTerminal(R) == \E r \in R : r.ret.kind \in {"Complete", "Err"}

\* The results R of the parse of buffer s are the results P of the parse of a
\* prefix p of s that holds a whole frame or an error: the same results
\* where the result is a function of the buffer, one and the same result
\* where it is not.
SameResults(P, p, R) ==
  IF last.op = "Request.parse" /\ ~ReqLineIsText(p)
    THEN \E a \in P : P = {a} /\ R = {a}
    ELSE R = P

\* C19: terminal outcomes are stable under extension: if parse of a buffer on
\* a fresh object returns Complete(v) or an Error, then parse of that buffer
\* followed by any bytes on a fresh object returns the same Complete(v) with
\* the same fields, or the same Error; only Partial can change. (Refuted: on
\* a request line that is not valid UTF-8 the result of Request.parse is not
\* determined by the line, and the decoder reads the bytes after it.)
C19_TerminalOutcomesAreStable ==
  IsParse =>
    \A k \in PrefixCuts(Len(buf)) :
      IsTerminal(FreshParse(Prefix(buf, k))) =>
        /\ SameResults(FreshParse(Prefix(buf, k)), Prefix(buf, k), FreshParse(buf))
        /\ (last.pre \in {Request_new, Response_new} =>
              IsTheResult(FreshParse(Prefix(buf, k)), Prefix(buf, k),
                          [ret |-> last.ret, self |-> obj]))

\* The part of C19 that holds: responses, and requests whose line is text.
TerminalOutcomesAreStable_OnText ==
  IsParse =>
    \A k \in PrefixCuts(Len(buf)) :
      (/\ IsTerminal(FreshParse(Prefix(buf, k)))
       /\ last.op = "Request.parse" => ReqLineIsText(Prefix(buf, k))) =>
        /\ FreshParse(buf) = FreshParse(Prefix(buf, k))
        /\ (last.pre \in {Request_new, Response_new} =>
              [ret |-> last.ret, self |-> obj] \in FreshParse(Prefix(buf, k)))

\* A fresh request has completed on a buffer that holds two bytes after the
\* frame, and the frame alone completes too.
TerminalOutcomesAreStable_Reached ==
  /\ last.op = "Request.parse"
  /\ last.pre = Request_new
  /\ buf = << CR, LF, LF, 97, 58, 97, CR, LF, 97, 58 >>
  /\ last.ret = Complete(8)
  /\ IsTerminal(FreshParse(Prefix(buf, 8)))

NoTerminatorIn(s) == \A i \in 1..Len(s) : ~IsTermByte(s[i])

\* C20: when next_line_inner returns Complete(end), no byte at the offsets
\* start .. end-1 is CR or LF; the text Request.parse hands to the URL parser
\* has at least one byte (a buffer of blank lines only gives Partial, never a
\* URL error); and the meta stored by a Response.parse that returns Complete
\* has at most 1024 bytes.
C20_LineContent ==
  /\ (last.op \in {"next_line", "next_line_limit"} /\ last.ret.kind = "Complete") =>
       /\ last.start <= last.ret.val
       /\ NoTerminatorIn(Slice(buf, last.start, last.ret.val))
  /\ last.op = "Request.parse" =>
       LET sk == skip_empty_lines(buf, 0)
           ln == next_line(buf, sk.pos)
       IN
       /\ (sk.ret.kind = "Complete" /\ ln.ret.kind = "Complete") =>
            /\ Len(Slice(buf, sk.pos, ln.ret.val)) >= 1
            /\ NoTerminatorIn(Slice(buf, sk.pos, ln.ret.val))
       /\ BlankEnd(buf, 0) = Len(buf) => last.ret = Partial
       /\ last.ret.kind \in {"Complete", "Err"} /\ last.ret # Err("NewLine") =>
            ReqEnd(buf) > ReqStart(buf)
  /\ (last.op = "Response.parse" /\ last.ret.kind = "Complete") =>
       /\ Len(obj.meta) = 1
       /\ Len(obj.meta[1]) <= META_MAX_LENGTH
       /\ NoTerminatorIn(obj.meta[1])

\* C20 witness: a response whose metadata has exactly 1024 bytes has
\* completed and the 1024 bytes are stored.
C20_Witness ==
  /\ last.op = "Response.parse"
  /\ last.ret.kind = "Complete"
  /\ Len(obj.meta) = 1
  /\ Len(obj.meta[1]) = META_MAX_LENGTH
====
